---- MODULE Spec2Model ----
(***************************************************************************)
(* Model of the two operator scripts of the repository:                    *)
(*   workaround.py  - the fleet-wide repair scan                           *)
(*   repro.py       - the reproduction driver                              *)
(* and of the part of the broker's persistent state they read and write    *)
(* (virtual-host metadata, the test queue).  The scripts are sequential;   *)
(* every external command is one step whose exit code is chosen by the     *)
(* environment.                                                            *)
(***************************************************************************)
EXTENDS Integers, Sequences, FiniteSets, TLC

VARIABLES
    prog,         \* which entry point runs: "workaround" | "repro" | "declare"
    pc,           \* position of the running script
    runs,         \* number of the current run of the script (1, 2, ...)
    prev,         \* the previous run of the script: how it ended and what it reported
    meta,         \* broker: vhost name -> metadata record (the vhosts that exist)
    queue,        \* broker: the queue QUEUE in VHOST: [exists, arguments]
    perms,        \* broker: guest has permissions on VHOST
    metaStart,    \* meta at the start of the current run (history)
    vhosts,       \* workaround.main: the parsed listing
    idx,          \* workaround.main: position of the for loop in vhosts
    fixed_count,  \* workaround.main: fixed_count
    report,       \* workaround.main: the final line printed ("none" before)
    calls,        \* external commands issued in this run: <<[step, arg, value, rc]>>
    declared,     \* repro: queue declarations made in this run: <<[step, expect_fail, dqt, reply, ret]>>
    dq            \* declare_queue_pika taken alone: its input and result

vars == <<prog, pc, runs, prev, meta, queue, perms, metaStart, vhosts, idx,
          fixed_count, report, calls, declared, dq>>

----------------------------------------------------------------------------
(* Bounds *)

MaxVhosts == 3      \* vhosts in the broker when the repair scan runs
MaxRuns == 2        \* successive runs of a script
MaxText == 3        \* words in the text of a broker error

(* Program constants *)

VHOST == "dqt_bug_repro"
QUEUE == "test_queue"
UNDEFINED == "undefined"
\* Variant: the corrective call writes the corrupted value back.
FixTypeUndefined == "undefined"

FIX_TYPE == "classic"
NOT_SET == "not_set"

VhostNames == <<"v1", "v2", "v3", "v4", "v5">>

\* Valid values of default_queue_type, and the corrupted one.
DqtValues == {"classic", "quorum", "stream", UNDEFINED}

EmptyRecord == [k \in {} |-> ""]

\* The metadata records of a vhost: the field absent, or holding a value.
MetaRecords == {EmptyRecord} \cup {[default_queue_type |-> v] : v \in DqtValues}

\* Exit codes an external command can end with.
ExitCodes == {0, 1}

----------------------------------------------------------------------------
(* Python helpers *)

\* dict.get(key, default)
Get(d, key, default) == IF key \in DOMAIN d THEN d[key] ELSE default

\* `needle in text`, the text taken as a sequence of words
Contains(text, needle) == \E i \in 1..Len(text) : text[i] = needle

\* An external command as issued: the step, the command or its target, the
\* value it sets, and the exit code it ended with.
Call(step, arg, value, rc) == [step |-> step, arg |-> arg, value |-> value, rc |-> rc]

----------------------------------------------------------------------------
(* The broker, as the scripts see it through the administrative commands   *)
(* and the client connection.                                              *)

\* The order in which the broker lists its vhosts.
NameOrder == VhostNames \o <<VHOST>>

ExistingNames(m) == SelectSeq(NameOrder, LAMBDA n : n \in DOMAIN m)

\* rabbitmqctl list_vhosts name default_queue_type --formatter json:
\* one object per vhost, the default_queue_type key present when it is set.
ListVhosts(m) ==
    [i \in 1..Len(ExistingNames(m)) |->
        [name |-> ExistingNames(m)[i]] @@ m[ExistingNames(m)[i]]]

\* rabbit_db_vhost:merge_metadata(Name, Map): the keys of Map overwrite.
MergeMetadata(m, name, map) ==
    IF name \in DOMAIN m THEN [m EXCEPT ![name] = map @@ @] ELSE m

\* rabbitmqctl update_vhost_metadata <name> --default-queue-type <type>
UpdateVhostMetadata(m, name, type) ==
    MergeMetadata(m, name, [default_queue_type |-> type])

\* rabbitmqctl delete_vhost <name>
DeleteVhost(m, name) == [n \in DOMAIN m \ {name} |-> m[n]]

\* rabbitmqadmin vhosts declare --name <name>: creates it when missing.
DeclareVhost(m, name) ==
    IF name \in DOMAIN m THEN m ELSE (name :> EmptyRecord) @@ m

NoQueue == [exists |-> FALSE, arguments |-> EmptyRecord]

\* Replies to a queue declaration, as the client library surfaces them.
Ok == [kind |-> "ok", text |-> <<>>]
ConnectionError == [kind |-> "Exception", text |-> <<"AMQPConnectionError">>]
AccessRefused == [kind |-> "ChannelClosedByBroker", text |-> <<"ACCESS_REFUSED">>]
PreconditionFailed(received, current) ==
    [kind |-> "ChannelClosedByBroker",
     text |-> <<"PRECONDITION_FAILED", "inequivalent", "x-queue-type", received, current>>]

\* The x-queue-type the broker checks for a declaration that names none:
\* the vhost's default_queue_type when the metadata holds one.
InjectedType(m) ==
    IF VHOST \in DOMAIN m THEN Get(m[VHOST], "default_queue_type", "none") ELSE "none"

\* The broker's argument-equivalence check of a redeclaration.
Equivalent(received, current) ==
    \/ received = "none"
    \/ received = current
    \/ received = "classic" /\ current = "none"

\* The arguments stored with a queue created by a declaration without a type.
CreatedArguments(m) ==
    IF InjectedType(m) = "none" THEN EmptyRecord
    ELSE ("x-queue-type" :> InjectedType(m))

\* The reply of the broker's declaration logic, the connection being up.
BrokerDeclare(m, q) ==
    IF ~q.exists THEN Ok
    ELSE IF Equivalent(InjectedType(m), Get(q.arguments, "x-queue-type", "none")) THEN Ok
    ELSE PreconditionFailed(InjectedType(m), Get(q.arguments, "x-queue-type", "none"))

\* Every reply a declaration can get in a state of the broker: the
\* connection layer can fail at any time.
DeclareReplies(m, q, p) ==
    IF VHOST \notin DOMAIN m THEN {ConnectionError}
    ELSE IF ~p THEN {ConnectionError, AccessRefused}
    ELSE {ConnectionError, BrokerDeclare(m, q)}

\* The queue after a declaration that got `reply`.
QueueAfter(m, q, reply) ==
    IF reply.kind = "ok" /\ ~q.exists
    THEN [exists |-> TRUE, arguments |-> CreatedArguments(m)]
    ELSE q

----------------------------------------------------------------------------
(* Shared pieces of the two scripts *)

Terminal == {"exit0", "exit1", "raised"}

\* Variant: the exit code is never examined.
RaisesNever(rc, check) == FALSE

\* subprocess.run(..., check=check) / run(cmd, check): raises
\* CalledProcessError when checked and the exit code is not 0.
Raises(rc, check) == check /\ rc # 0

NoReport == [line |-> "none", n |-> 0]

StartPc(p) == IF p = "workaround" THEN "list" ELSE "cleanup"

\* The script is started again (the operator runs it a second time).
Rerun(p) ==
    /\ prog = p
    /\ pc \in Terminal
    /\ runs < MaxRuns
    /\ runs' = runs + 1
    /\ prev' = [exit |-> pc, report |-> report]
    /\ pc' = StartPc(p)
    /\ metaStart' = meta
    /\ vhosts' = <<>>
    /\ idx' = 0
    /\ fixed_count' = 0
    /\ report' = NoReport
    /\ calls' = <<>>
    /\ declared' = <<>>
    /\ UNCHANGED <<prog, meta, queue, perms, dq>>

----------------------------------------------------------------------------
(* workaround.py *)

\* Variant: the trigger tests the default of the lookup, not the corrupted value.
IsProblematicNotSet(dqt) == dqt = NOT_SET

\* Variant: the trigger is every value other than the corrected one.
IsProblematicNotClassic(dqt) == dqt # FIX_TYPE

\* the trigger of the corrective call: dqt == "undefined"
IsProblematic(dqt) == dqt = UNDEFINED

\* the listing command and json.loads of its output
WorkaroundList ==
    /\ prog = "workaround"
    /\ pc = "list"
    /\ \E rc \in ExitCodes :
        /\ calls' = Append(calls, Call("list_vhosts", "", "", rc))
        /\ IF rc # 0
           THEN /\ pc' = "exit1"
                /\ UNCHANGED <<vhosts, idx, fixed_count>>
           ELSE /\ vhosts' = ListVhosts(meta)
                /\ idx' = 1
                /\ fixed_count' = 0
                /\ pc' = "loop"
    /\ UNCHANGED <<prog, runs, prev, meta, queue, perms, metaStart, report,
                   declared, dq>>

\* one iteration of `for vhost in vhosts`
WorkaroundEntry ==
    /\ prog = "workaround"
    /\ pc = "loop"
    /\ idx <= Len(vhosts)
    /\ LET vhost == vhosts[idx]
           name == vhost["name"]
           dqt == Get(vhost, "default_queue_type", NOT_SET)
       IN IF IsProblematic(dqt)
          THEN \E rc \in ExitCodes :
                /\ calls' = Append(calls, Call("update_vhost_metadata", name, FIX_TYPE, rc))
                /\ IF Raises(rc, TRUE)
                   THEN /\ pc' = "raised"
                        /\ UNCHANGED <<meta, fixed_count, idx>>
                   ELSE /\ meta' = IF rc = 0
                                   THEN UpdateVhostMetadata(meta, name, FIX_TYPE)
                                   ELSE meta
                        /\ fixed_count' = fixed_count + 1
                        /\ idx' = idx + 1
                        /\ pc' = "loop"
          ELSE /\ idx' = idx + 1
               /\ UNCHANGED <<pc, meta, fixed_count, calls>>
    /\ UNCHANGED <<prog, runs, prev, queue, perms, metaStart, vhosts, report,
                   declared, dq>>

\* the summary after the loop
WorkaroundReport ==
    /\ prog = "workaround"
    /\ pc = "loop"
    /\ idx > Len(vhosts)
    /\ report' = IF fixed_count > 0
                 THEN [line |-> "fixed", n |-> fixed_count]
                 ELSE [line |-> "all_ok", n |-> 0]
    /\ pc' = "exit0"
    /\ UNCHANGED <<prog, runs, prev, meta, queue, perms, metaStart, vhosts,
                   idx, fixed_count, calls, declared, dq>>

WorkaroundRerun == Rerun("workaround")

----------------------------------------------------------------------------
(* repro.py *)

\* Variant: check is dropped, every command is treated as unchecked.
runUnchecked(rc, check, next) == next

\* run(cmd, check): where main goes after the command ended with rc
run(rc, check, next) == IF Raises(rc, check) THEN "raised" ELSE next

\* run_eval(erlang_code): the result is returned unexamined
run_eval(rc, next) == next

\* Variant: any closure of the channel by the broker counts as the expected failure.
declareAnyClosure(reply, expect_fail) ==
    IF reply.kind = "ok" THEN ~expect_fail
    ELSE IF reply.kind = "ChannelClosedByBroker" THEN expect_fail
    ELSE FALSE

\* declare_queue_pika: its return value for the reply the declaration got
declare_queue_pika(reply, expect_fail) ==
    IF reply.kind = "ok" THEN ~expect_fail
    ELSE IF reply.kind = "ChannelClosedByBroker"
    THEN expect_fail /\ Contains(reply.text, "PRECONDITION_FAILED")
    ELSE FALSE

ReproFrame ==
    UNCHANGED <<prog, runs, prev, metaStart, vhosts, idx, fixed_count, report, dq>>

\* A step of main that is one call of run_eval whose code only reads.
EvalStep(here, next) ==
    /\ prog = "repro"
    /\ pc = here
    /\ \E rc \in ExitCodes :
        /\ calls' = Append(calls, Call(here, "eval", "", rc))
        /\ pc' = run_eval(rc, next)
    /\ UNCHANGED <<meta, queue, perms, declared>>
    /\ ReproFrame

\* A step of main that is one call of declare_queue_pika.
DeclareStep(here, expect_fail, onTrue, onFalse) ==
    /\ prog = "repro"
    /\ pc = here
    /\ \E reply \in DeclareReplies(meta, queue, perms) :
        LET ret == declare_queue_pika(reply, expect_fail)
        IN /\ queue' = QueueAfter(meta, queue, reply)
           /\ declared' = Append(declared,
                 [step |-> here, expect_fail |-> expect_fail, dqt |-> InjectedType(meta),
                  reply |-> reply, ret |-> ret])
           /\ pc' = IF ret THEN onTrue ELSE onFalse
    /\ UNCHANGED <<meta, perms, calls>>
    /\ ReproFrame

\* CLEANUP: run(delete_vhost, check=False)
Cleanup ==
    /\ prog = "repro"
    /\ pc = "cleanup"
    /\ \E rc \in ExitCodes :
        /\ calls' = Append(calls, Call("cleanup", "delete_vhost", "", rc))
        /\ pc' = run(rc, FALSE, "vhost_declare")
        /\ IF rc = 0
           THEN /\ meta' = DeleteVhost(meta, VHOST)
                /\ queue' = NoQueue
                /\ perms' = FALSE
           ELSE UNCHANGED <<meta, queue, perms>>
    /\ UNCHANGED declared
    /\ ReproFrame

\* STEP 1, first command: run(vhosts declare)
Step1Vhost ==
    /\ prog = "repro"
    /\ pc = "vhost_declare"
    /\ \E rc \in ExitCodes :
        /\ calls' = Append(calls, Call("step1", "vhosts declare", "", rc))
        /\ pc' = run(rc, TRUE, "permissions_declare")
        /\ meta' = IF rc = 0 THEN DeclareVhost(meta, VHOST) ELSE meta
    /\ UNCHANGED <<queue, perms, declared>>
    /\ ReproFrame

\* STEP 1, second command: run(permissions declare)
Step1Permissions ==
    /\ prog = "repro"
    /\ pc = "permissions_declare"
    /\ \E rc \in ExitCodes :
        /\ calls' = Append(calls, Call("step1", "permissions declare", "", rc))
        /\ pc' = run(rc, TRUE, "step2")
        /\ perms' = IF rc = 0 THEN TRUE ELSE perms
    /\ UNCHANGED <<meta, queue, declared>>
    /\ ReproFrame

\* Variant: the result of the first declaration is dropped.
Step2Continues == DeclareStep("step2", FALSE, "step3", "step3")

\* STEP 2: if not declare_queue_pika(VHOST, QUEUE): sys.exit(1)
Step2 == DeclareStep("step2", FALSE, "step3", "exit1")

Step3 == EvalStep("step3", "step4")

Step4 == EvalStep("step4", "step5")

\* Variant: the merge writes a valid value.
Step5Classic ==
    /\ prog = "repro"
    /\ pc = "step5"
    /\ \E rc \in ExitCodes :
        /\ calls' = Append(calls, Call("step5", "merge_metadata", UNDEFINED, rc))
        /\ pc' = run_eval(rc, "step6")
        /\ meta' = IF rc = 0
                   THEN MergeMetadata(meta, VHOST, [default_queue_type |-> "classic"])
                   ELSE meta
    /\ UNCHANGED <<queue, perms, declared>>
    /\ ReproFrame

\* STEP 5: run_eval(merge_metadata(VHOST, default_queue_type => "undefined"))
Step5 ==
    /\ prog = "repro"
    /\ pc = "step5"
    /\ \E rc \in ExitCodes :
        /\ calls' = Append(calls, Call("step5", "merge_metadata", UNDEFINED, rc))
        /\ pc' = run_eval(rc, "step6")
        /\ meta' = IF rc = 0
                   THEN MergeMetadata(meta, VHOST, [default_queue_type |-> UNDEFINED])
                   ELSE meta
    /\ UNCHANGED <<queue, perms, declared>>
    /\ ReproFrame

Step6 == EvalStep("step6", "step7")

\* Variant: the result of the redeclaration ends the run as at step 2.
Step7Exits == DeclareStep("step7", TRUE, "step8", "exit1")

\* STEP 7: declare_queue_pika(VHOST, QUEUE, expect_fail=True), result dropped
Step7 == DeclareStep("step7", TRUE, "step8", "step8")

\* Variant: the workaround command is run with check=False.
Step8Unchecked ==
    /\ prog = "repro"
    /\ pc = "step8"
    /\ \E rc \in ExitCodes :
        /\ calls' = Append(calls, Call("step8", "update_vhost_metadata", "classic", rc))
        /\ pc' = run(rc, FALSE, "step9")
        /\ meta' = IF rc = 0 THEN UpdateVhostMetadata(meta, VHOST, "classic") ELSE meta
    /\ UNCHANGED <<queue, perms, declared>>
    /\ ReproFrame

\* STEP 8: run(update_vhost_metadata VHOST --default-queue-type classic)
Step8 ==
    /\ prog = "repro"
    /\ pc = "step8"
    /\ \E rc \in ExitCodes :
        /\ calls' = Append(calls, Call("step8", "update_vhost_metadata", "classic", rc))
        /\ pc' = run(rc, TRUE, "step9")
        /\ meta' = IF rc = 0 THEN UpdateVhostMetadata(meta, VHOST, "classic") ELSE meta
    /\ UNCHANGED <<queue, perms, declared>>
    /\ ReproFrame

Step9 == EvalStep("step9", "step10")

\* STEP 10: declare_queue_pika(VHOST, QUEUE), result dropped; main returns
Step10 == DeclareStep("step10", FALSE, "exit0", "exit0")

ReproRerun == Rerun("repro")

----------------------------------------------------------------------------
(* declare_queue_pika taken alone, over every reply the client library can *)
(* surface                                                                 *)

Words == {"PRECONDITION_FAILED", UNDEFINED, "NOT_FOUND"}

Texts == UNION {[1..n -> Words] : n \in 0..MaxText}

AnyReplies ==
    {Ok} \cup [kind : {"ChannelClosedByBroker", "Exception"}, text : Texts]

IdleDq == [reply |-> Ok, expect_fail |-> FALSE, done |-> FALSE, ret |-> FALSE]

DeclareCall ==
    /\ prog = "declare"
    /\ pc = "call"
    /\ dq' = [dq EXCEPT !.done = TRUE,
                        !.ret = declare_queue_pika(dq.reply, dq.expect_fail)]
    /\ pc' = "returned"
    /\ UNCHANGED <<prog, runs, prev, meta, queue, perms, metaStart, vhosts, idx,
                   fixed_count, report, calls, declared>>

----------------------------------------------------------------------------
(* Specifications *)

NoVhosts == [n \in {} |-> EmptyRecord]

InitRun ==
    /\ runs = 1
    /\ prev = [exit |-> "none", report |-> NoReport]
    /\ metaStart = meta
    /\ vhosts = <<>>
    /\ idx = 0
    /\ fixed_count = 0
    /\ report = NoReport
    /\ calls = <<>>
    /\ declared = <<>>

\* The repair scan starts against any set of vhosts; the reproduction
\* starts against a broker that has never seen VHOST.
Init ==
    /\ prog \in {"workaround", "repro"}
    /\ pc = StartPc(prog)
    /\ IF prog = "workaround"
       THEN \E n \in 0..MaxVhosts :
                meta \in [{VhostNames[i] : i \in 1..n} -> MetaRecords]
       ELSE meta = NoVhosts
    /\ queue = NoQueue
    /\ perms = FALSE
    /\ dq = IdleDq
    /\ InitRun

Next ==
    \/ WorkaroundList
    \/ WorkaroundEntry
    \/ WorkaroundReport
    \/ WorkaroundRerun
    \/ Cleanup
    \/ Step1Vhost
    \/ Step1Permissions
    \/ Step2
    \/ Step3
    \/ Step4
    \/ Step5
    \/ Step6
    \/ Step7
    \/ Step8
    \/ Step9
    \/ Step10
    \/ ReproRerun

Spec == Init /\ [][Next]_vars

InitDeclare ==
    /\ prog = "declare"
    /\ pc = "call"
    /\ meta = NoVhosts
    /\ queue = NoQueue
    /\ perms = FALSE
    /\ dq \in [reply : AnyReplies, expect_fail : BOOLEAN, done : {FALSE}, ret : {FALSE}]
    /\ InitRun

NextDeclare == DeclareCall

SpecDeclare == InitDeclare /\ [][NextDeclare]_vars

----------------------------------------------------------------------------
(* Properties of the repair scan *)

Dqt(record) == Get(record, "default_queue_type", "absent")

\* The corrective calls of this run, in the order issued.
Fixes == SelectSeq(calls, LAMBDA c : c.step = "update_vhost_metadata")

\* The listed entries whose value is the corrupted one, in listing order.
UndefinedEntries == SelectSeq(vhosts, LAMBDA v : Dqt(v) = UNDEFINED)

AllOk == [line |-> "all_ok", n |-> 0]

\* C1: after a complete run of the scan no vhost has default_queue_type
\* "undefined", and every vhost whose value was not "undefined" before the
\* run (the field absent included) has the record it had before.
C1_RepairPostcondition ==
    (prog = "workaround" /\ pc = "exit0") =>
        /\ DOMAIN meta = DOMAIN metaStart
        /\ \A n \in DOMAIN meta :
            /\ Dqt(meta[n]) # UNDEFINED
            /\ (Dqt(metaStart[n]) # UNDEFINED => meta[n] = metaStart[n])

C1_Witness ==
    /\ prog = "workaround"
    /\ pc = "exit0"
    /\ runs = 1
    /\ \E a, b, c \in DOMAIN metaStart :
        /\ Dqt(metaStart[a]) = UNDEFINED
        /\ metaStart[b] = EmptyRecord
        /\ Dqt(metaStart[c]) = "quorum"

\* C2: a run of the scan that follows a complete run issues no corrective
\* call, leaves the metadata as the first run left it, and ends reporting
\* "All vhosts are OK" with a fixed-count of 0.
C2_SecondRunFixesNothing ==
    (prog = "workaround" /\ runs >= 2 /\ prev.exit = "exit0") =>
        /\ Fixes = <<>>
        /\ meta = metaStart
        /\ fixed_count = 0
        /\ (pc = "exit0" => report = AllOk)

C2_Witness ==
    /\ prog = "workaround"
    /\ runs = 2
    /\ prev.exit = "exit0"
    /\ prev.report.line = "fixed"
    /\ prev.report.n = 2
    /\ pc = "exit0"

\* C3: a complete run issues one corrective call, setting "classic", for
\* each listed entry whose value is "undefined", on that entry's name and in
\* listing order, none for any other entry, and reports their number.
C3_CallAccounting ==
    (prog = "workaround" /\ pc = "exit0") =>
        /\ Len(Fixes) = Len(UndefinedEntries)
        /\ \A i \in 1..Len(Fixes) :
            /\ Fixes[i].arg = UndefinedEntries[i].name
            /\ Fixes[i].value = "classic"
        /\ fixed_count = Len(UndefinedEntries)
        /\ report = IF Len(UndefinedEntries) > 0
                    THEN [line |-> "fixed", n |-> Len(UndefinedEntries)]
                    ELSE AllOk

\* Scenario D of the specification.
C3_Witness ==
    /\ prog = "workaround"
    /\ pc = "exit0"
    /\ vhosts = <<[name |-> "v1", default_queue_type |-> UNDEFINED],
                  [name |-> "v2", default_queue_type |-> "classic"]>>
    /\ Len(Fixes) = 1
    /\ Fixes[1].arg = "v1"
    /\ report = [line |-> "fixed", n |-> 1]

\* C10: a corrective call that fails ends the scan at that entry with
\* nothing reported; the "undefined" entries listed before it are "classic",
\* the entries listed after it have had no call and are as they were.
C10_PartialRepair ==
    (prog = "workaround" /\ \E i \in 1..Len(calls) :
                                calls[i].step = "update_vhost_metadata" /\ calls[i].rc # 0) =>
        /\ pc = "raised"
        /\ report = NoReport
        /\ idx \in 1..Len(vhosts)
        /\ Dqt(vhosts[idx]) = UNDEFINED
        /\ calls[Len(calls)].arg = vhosts[idx].name
        /\ \A i \in 1..Len(calls) : calls[i].rc # 0 => i = Len(calls)
        /\ \A j \in 1..(idx - 1) :
            /\ Dqt(vhosts[j]) = UNDEFINED => Dqt(meta[vhosts[j].name]) = "classic"
            /\ Dqt(vhosts[j]) # UNDEFINED => meta[vhosts[j].name] = metaStart[vhosts[j].name]
        /\ \A j \in (idx + 1)..Len(vhosts) :
            /\ meta[vhosts[j].name] = metaStart[vhosts[j].name]
            /\ \A i \in 1..Len(calls) : calls[i].arg # vhosts[j].name

C10_Witness ==
    /\ prog = "workaround"
    /\ pc = "raised"
    /\ idx = 2
    /\ Len(vhosts) = 3
    /\ Dqt(vhosts[1]) = UNDEFINED
    /\ Dqt(meta[vhosts[1].name]) = "classic"
    /\ Dqt(meta[vhosts[3].name]) = UNDEFINED

----------------------------------------------------------------------------
(* Properties of the reproduction driver *)

Issued(step) == \E i \in 1..Len(calls) : calls[i].step = step

IssuedOk(step) == \E i \in 1..Len(calls) : calls[i].step = step /\ calls[i].rc = 0

\* The steps whose command main runs through run() with check left True.
CheckedSteps == {"step1", "step8"}

LastCallFailedChecked ==
    /\ Len(calls) > 0
    /\ calls[Len(calls)].rc # 0
    /\ calls[Len(calls)].step \in CheckedSteps

\* Any step of a run of either script (a restart is not one).
RunStep ==
    \/ WorkaroundList \/ WorkaroundEntry \/ WorkaroundReport
    \/ Cleanup \/ Step1Vhost \/ Step1Permissions
    \/ Step2 \/ Step3 \/ Step4 \/ Step5 \/ Step6 \/ Step7 \/ Step8 \/ Step9 \/ Step10

\* C4, as claimed: every non-zero exit of an external command other than
\* the tolerated cleanup ends the run at that command.
C4_AnyFailureAborts ==
    prog = "repro" =>
        \A i \in 1..Len(calls) :
            (calls[i].rc # 0 /\ calls[i].step # "cleanup") =>
                (pc = "raised" /\ i = Len(calls))

\* C4, amended: a non-zero exit of a command run with check=True (vhost
\* declare, permissions declare, the step 8 update) ends the run at that
\* command, no later step being executed; the run is ended this way by no
\* other command: the cleanup and the evaluation calls may fail and the run
\* goes on.
C4_CheckedFailureAborts ==
    prog = "repro" =>
        /\ \A i \in 1..Len(calls) :
            (calls[i].rc # 0 /\ calls[i].step \in CheckedSteps) =>
                /\ pc = "raised"
                /\ i = Len(calls)
                /\ Len(declared) = IF calls[i].step = "step1" THEN 0 ELSE 2
        /\ pc = "raised" => LastCallFailedChecked

C4_Witness ==
    /\ prog = "repro"
    /\ pc = "raised"
    /\ calls[Len(calls)].step = "step8"
    /\ \E i, j \in 1..Len(calls) :
        /\ calls[i].step = "cleanup" /\ calls[i].rc # 0
        /\ calls[j].step = "step5" /\ calls[j].rc # 0

\* C5: the declarations of a run are those of steps 2, 7 and 10 in this
\* order; unless the connection fails, (A) the step 2 declaration finds the
\* default_queue_type of a freshly created vhost absent and succeeds, (B) the
\* step 7 declaration that follows a successful step 5 is rejected with
\* PRECONDITION_FAILED naming "undefined" and is the expected outcome,
\* (C) the step 10 declaration finds "classic" and succeeds.
C5_ScenarioOutcomes ==
    prog = "repro" =>
        \A i \in 1..Len(declared) :
            LET d == declared[i]
            IN /\ d.step = <<"step2", "step7", "step10">>[i]
               /\ d.reply.kind # "Exception" =>
                    /\ (d.step = "step2" /\ (runs = 1 \/ calls[1].rc = 0)) =>
                            d.dqt = "none"
                    /\ (d.step = "step2" /\ d.dqt = "none") =>
                            (d.reply = Ok /\ d.ret)
                    /\ (d.step = "step7" /\ IssuedOk("step5")) =>
                            /\ d.dqt = UNDEFINED
                            /\ d.reply.kind = "ChannelClosedByBroker"
                            /\ Contains(d.reply.text, "PRECONDITION_FAILED")
                            /\ Contains(d.reply.text, UNDEFINED)
                            /\ d.ret
                    /\ d.step = "step10" =>
                            (d.dqt = "classic" /\ d.reply = Ok /\ d.ret)

C5_Witness ==
    /\ prog = "repro"
    /\ pc = "exit0"
    /\ Len(declared) = 3
    /\ declared[1].dqt = "none" /\ declared[1].reply = Ok
    /\ declared[2].reply = PreconditionFailed(UNDEFINED, "none") /\ declared[2].ret
    /\ declared[3].dqt = "classic" /\ declared[3].reply = Ok

\* C7, as claimed: a connection-layer exception at any declaration is
\* reported as a failed declaration and the run does not end there.
C7_ExceptionNeverEnds ==
    prog = "repro" =>
        \A i \in 1..Len(declared) :
            declared[i].reply.kind = "Exception" =>
                (~declared[i].ret /\ pc # "exit1")

\* C7, amended: a connection-layer exception at a declaration is caught and
\* reported as a failed declaration; at steps 7 and 10 the run goes on with
\* the following steps, at step 2 the run exits with status 1.
C7_ExceptionAtLaterSteps ==
    prog = "repro" =>
        \A i \in 1..Len(declared) :
            declared[i].reply.kind = "Exception" =>
                /\ ~declared[i].ret
                /\ declared[i].step = "step2" => (pc = "exit1" /\ Len(declared) = 1)
                /\ declared[i].step = "step7" =>
                        /\ pc \in {"step8", "step9", "step10", "exit0", "raised"}
                        /\ pc # "step8" => Issued("step8")
                /\ declared[i].step = "step10" => pc = "exit0"

C7_Witness ==
    /\ prog = "repro"
    /\ pc = "exit0"
    /\ declared[2].reply = ConnectionError
    /\ declared[3].reply = ConnectionError

C9_StepOrdering ==
    prog = "repro" =>
        /\ Issued("step5") =>
            (Len(declared) > 0 /\ declared[1].step = "step2"
                /\ declared[1].reply = Ok /\ declared[1].ret)
        /\ (pc \in Terminal /\ Len(declared) > 0 /\ declared[1].ret) => Issued("step8")
        /\ (pc = "step10" \/ Len(declared) = 3) => IssuedOk("step8")

C9_Witness ==
    /\ prog = "repro"
    /\ pc = "raised"
    /\ Len(declared) = 2
    /\ ~declared[2].ret
    /\ calls[Len(calls)].step = "step8"

----------------------------------------------------------------------------
(* Properties of declare_queue_pika *)

\* C6, as claimed: with expect_fail the function returns True only for a
\* rejection by the broker whose text has PRECONDITION_FAILED and mentions
\* "undefined".
C6_OnlyWhenMentioned ==
    (prog = "declare" /\ dq.done /\ dq.expect_fail) =>
        (dq.ret <=> /\ dq.reply.kind = "ChannelClosedByBroker"
                    /\ Contains(dq.reply.text, "PRECONDITION_FAILED")
                    /\ Contains(dq.reply.text, UNDEFINED))

\* C6, amended: with expect_fail the function returns True exactly for a
\* rejection by the broker whose text has PRECONDITION_FAILED, whether or
\* not the text mentions "undefined"; a successful declaration and every
\* other rejection or exception return False.
C6_PreconditionFailedOnly ==
    (prog = "declare" /\ dq.done /\ dq.expect_fail) =>
        (dq.ret <=> /\ dq.reply.kind = "ChannelClosedByBroker"
                    /\ Contains(dq.reply.text, "PRECONDITION_FAILED"))

C6_Witness ==
    /\ prog = "declare"
    /\ dq.done
    /\ dq.expect_fail
    /\ dq.ret
    /\ dq.reply.text = <<"PRECONDITION_FAILED", "NOT_FOUND">>

====
